---- MODULE Spec2Model ----
(***************************************************************************)
(* ModuleInterface of meillionen/interface/module_interface.py: the        *)
(* registry of ClassInterface values keyed by class name, its constructor, *)
(* the dispatch entry point __call__, handle, and serialize/deserialize.   *)
(*                                                                         *)
(* A Python dict is modelled as the sequence of its entries                *)
(* [key |-> k, val |-> v] in insertion order, with pairwise distinct keys. *)
(***************************************************************************)
EXTENDS Integers, Sequences, FiniteSets, TLC

\* ---------------------------------------------------------------- bounds
MaxClasses == 2
NumThreads == 2

ClassNames == {"A", "B"}
MethodNames == {"f", "g"}
Handles == {"h1", "h2"}
SinkVals == {"s1", "s2"}
SourceVals == {"r1"}
Threads == 1 .. NumThreads

\* ------------------------------------------------------- Python dict
Keys(d) == {d[i].key : i \in 1 .. Len(d)}

HasKey(d, k) == \E i \in 1 .. Len(d) : d[i].key = k

\* d[k], defined when HasKey(d, k)
GetItem(d, k) == d[CHOOSE i \in 1 .. Len(d) : d[i].key = k].val

\* d[k] = v: an existing key keeps its position and takes the new value
SetItem(d, k, v) ==
    IF HasKey(d, k)
    THEN [i \in 1 .. Len(d) |-> IF d[i].key = k THEN [key |-> k, val |-> v] ELSE d[i]]
    ELSE Append(d, [key |-> k, val |-> v])

Values(d) == [i \in 1 .. Len(d) |-> d[i].val]

\* ------------------------------------------------- outcomes of a call
Return(v) == [kind |-> "return", exc |-> "", origin |-> "", cause |-> "", val |-> v]

Raise(e, o, c) == [kind |-> "raise", exc |-> e, origin |-> o, cause |-> c, val |-> <<>>]

\* ------------------------------------- MethodInterface, ClassInterface
MethodInterface(n, h) == [name |-> n, handle |-> h]

ClassInterface(n, ms) == [name |-> n, methods |-> ms]

NoMethod == MethodInterface("", "")

NoClass == ClassInterface("", <<>>)

\* the callable behind a MethodInterface: h1 returns a value built from its
\* arguments; h2 fails, with a KeyError of its own when it is given the sink
\* "s1" and with another error otherwise
CallHandle(h, sinks, sources) ==
    CASE h = "h1" -> Return(<<h, sinks, sources>>)
      [] h = "h2" /\ sinks = "s1" -> Raise("KeyError", h, "")
      [] OTHER -> Raise("HandleError", h, "")

\* MethodInterface.__call__(sinks=..., sources=...)
CallMethod(m, sinks, sources) == CallHandle(m.handle, sinks, sources)

\* ClassInterface.get_method(name)
get_method(klass, name) ==
    IF HasKey(klass.methods, name)
    THEN Return(GetItem(klass.methods, name))
    ELSE Raise("MethodNotFound", "get_method", "KeyError")

\* ------------------------------------------------- ModuleInterface
\* {c.name: c for c in classes}
RECURSIVE DictByName(_, _)
DictByName(xs, d) ==
    IF xs = <<>> THEN d
    ELSE DictByName(Tail(xs), SetItem(d, Head(xs).name, Head(xs)))

\* ModuleInterface.__init__(classes); arg.kind = "mapping" when the argument
\* has an attribute 'values'
ModuleInterfaceInit(arg) ==
    IF arg.kind # "mapping" THEN DictByName(arg.val, <<>>) ELSE arg.val

\* as LookupClass, the KeyError left as it is
LookupClassUnwrapped(cs, name) ==
    IF HasKey(cs, name)
    THEN Return(GetItem(cs, name))
    ELSE Raise("KeyError", "classes", "")

\* __call__, lines 28-31: the class lookup, a KeyError becoming ClassNotFound
LookupClass(cs, name) ==
    IF HasKey(cs, name)
    THEN Return(GetItem(cs, name))
    ELSE Raise("ClassNotFound", "__call__", "KeyError")

\* as InvokeMethod, sinks and sources exchanged
InvokeMethodSwapped(m, req) == CallMethod(m, req.sources, req.sinks)

\* as InvokeMethod, inside the try block: a KeyError of the callee is converted
InvokeMethodInTry(m, req) ==
    LET r == CallMethod(m, req.sinks, req.sources)
    IN IF r.kind = "raise" /\ r.exc = "KeyError"
       THEN Raise("ClassNotFound", "__call__", "KeyError")
       ELSE r

\* __call__, line 34: the invocation, outside the try block
InvokeMethod(m, req) == CallMethod(m, req.sinks, req.sources)

\* as handle, a missing class reported the way __call__ reports it
handleWrapped(cs, req) ==
    IF ~HasKey(cs, req.class_name) THEN Raise("ClassNotFound", "__call__", "KeyError")
    ELSE LET klass == GetItem(cs, req.class_name) IN
         IF ~HasKey(klass.methods, req.method_name) THEN Raise("KeyError", "_methods", "")
         ELSE Return(GetItem(klass.methods, req.method_name))

\* ModuleInterface.handle(req): two plain subscripts, no invocation
handle(cs, req) ==
    IF ~HasKey(cs, req.class_name) THEN Raise("KeyError", "classes", "")
    ELSE LET klass == GetItem(cs, req.class_name) IN
         IF ~HasKey(klass.methods, req.method_name) THEN Raise("KeyError", "_methods", "")
         ELSE Return(GetItem(klass.methods, req.method_name))

\* ------------------------------------------ the flat buffer (builder)
\* A builder is the sequence of the objects written so far; the offset of an
\* object is its index.  A finished buffer names the offset of its root.
Obj(tag, name, ref, vec, items) ==
    [tag |-> tag, name |-> name, ref |-> ref, vec |-> vec, items |-> items]

Reverse(s) == [i \in 1 .. Len(s) |-> s[Len(s) + 1 - i]]

\* prepending the offsets one by one, as a builder fills a vector back to front
RECURSIVE PrependAll(_, _)
PrependAll(offs, items) ==
    IF offs = <<>> THEN items
    ELSE PrependAll(Tail(offs), <<Head(offs)>> \o items)

EndVector(b, offs) == Append(b, Obj("vector", "", "", 0, PrependAll(Reverse(offs), <<>>)))

\* MethodInterface.serialize for each element of a list, in order
RECURSIVE SerializeMethods(_, _, _)
SerializeMethods(b, ms, offs) ==
    IF ms = <<>> THEN [b |-> b, offs |-> offs]
    ELSE LET b2 == Append(b, Obj("method", Head(ms).name, Head(ms).handle, 0, <<>>))
         IN SerializeMethods(b2, Tail(ms), Append(offs, Len(b2)))

\* ClassInterface.serialize: the vector of its methods' values, then the record
SerializeClass(b, c) ==
    LET r == SerializeMethods(b, Values(c.methods), <<>>)
        b2 == EndVector(r.b, r.offs)
    IN Append(b2, Obj("class", c.name, "", Len(b2), <<>>))

RECURSIVE SerializeClasses(_, _, _)
SerializeClasses(b, cs, offs) ==
    IF cs = <<>> THEN [b |-> b, offs |-> offs]
    ELSE LET b2 == SerializeClass(b, Head(cs))
         IN SerializeClasses(b2, Tail(cs), Append(offs, Len(b2)))

\* serialize_dict(builder, vector_builder, xs): the values of xs, in order
serialize_dict(b, xs) ==
    LET r == SerializeClasses(b, Values(xs), <<>>) IN EndVector(r.b, r.offs)

\* ModuleInterface.serialize(builder), on a fresh builder
serialize(cs) ==
    LET b == serialize_dict(<<>>, cs)
        b2 == Append(b, Obj("module", "", "", Len(b), <<>>))
    IN [objs |-> b2, root |-> Len(b2)]

NoBuffer == [objs |-> <<>>, root |-> 0]

\* MethodInterface.from_interface over the j-th element of a methods vector
RECURSIVE DecodeMethods(_, _, _, _)
DecodeMethods(objs, items, j, d) ==
    IF j > Len(items) THEN d
    ELSE LET o == objs[items[j]]
         IN DecodeMethods(objs, items, j + 1,
                          SetItem(d, o.name, MethodInterface(o.name, o.ref)))

\* ClassInterface.from_interface
ClassFromInterface(objs, o) ==
    ClassInterface(o.name, DecodeMethods(objs, objs[o.vec].items, 1, <<>>))

\* deserialize_to_dict(constructor, getter, n): elements 0 .. n-1 keyed by name
RECURSIVE deserialize_to_dict(_, _, _, _)
deserialize_to_dict(objs, items, j, d) ==
    IF j > Len(items) THEN d
    ELSE LET c == ClassFromInterface(objs, objs[items[j]])
         IN deserialize_to_dict(objs, items, j + 1, SetItem(d, c.name, c))

\* as deserialize, n one short of ClassesLength()
deserializeOneShort(buffer) ==
    LET interface == buffer.objs[buffer.root]
        items == buffer.objs[interface.vec].items
        classes_ == deserialize_to_dict(buffer.objs, SubSeq(items, 1, Len(items) - 1), 1, <<>>)
    IN ModuleInterfaceInit([kind |-> "mapping", val |-> classes_])

\* ModuleInterface.deserialize(buffer)
deserialize(buffer) ==
    LET interface == buffer.objs[buffer.root]
        classes_ == deserialize_to_dict(buffer.objs, buffer.objs[interface.vec].items, 1, <<>>)
    IN ModuleInterfaceInit([kind |-> "mapping", val |-> classes_])

\* ---------------------------------------------------------- inputs
SeqsUpTo(S, n) == UNION {[1 .. k -> S] : k \in 0 .. n}

IsInjective(s) == \A i, j \in 1 .. Len(s) : s[i] = s[j] => i = j

MethodInterfaces == {MethodInterface(n, h) : n \in MethodNames, h \in Handles}

\* the _methods dict of a ClassInterface: keyed by method name, any number of
\* the method names in any insertion order
MethodDicts ==
    {[i \in 1 .. Len(s) |-> [key |-> s[i].name, val |-> s[i]]] :
        s \in {x \in SeqsUpTo(MethodInterfaces, Cardinality(MethodNames)) :
                  IsInjective([i \in 1 .. Len(x) |-> x[i].name])}}

ClassPool == {ClassInterface(n, ms) : n \in ClassNames, ms \in MethodDicts}

\* the dicts with the keys ks, in that order, over any ClassInterface values:
\* the keys are distinct, nothing relates a key to the name of its value
KeySeqs == {x \in SeqsUpTo(ClassNames, MaxClasses) : IsInjective(x)}

DictOver(ks, vs) == [i \in 1 .. Len(ks) |-> [key |-> ks[i], val |-> vs[i]]]

SequenceArg(s) == [kind |-> "sequence", val |-> s]

MappingArg(d) == [kind |-> "mapping", val |-> d]

Requests ==
    [class_name : ClassNames, method_name : MethodNames,
     sinks : SinkVals, sources : SourceVals]

\* the registries the dispatch runs are made on, each a constructor argument
MD(ms) == [i \in 1 .. Len(ms) |-> [key |-> ms[i].name, val |-> ms[i]]]

DispatchArgs ==
    { [kind |-> "sequence",
       val |-> << ClassInterface("A", MD(<<MethodInterface("f", "h1"), MethodInterface("g", "h2")>>)),
                  ClassInterface("B", MD(<<MethodInterface("f", "h2")>>)) >>],
      [kind |-> "sequence",
       val |-> << ClassInterface("A", MD(<<MethodInterface("f", "h1")>>)),
                  ClassInterface("A", MD(<<MethodInterface("g", "h2")>>)) >>],
      [kind |-> "mapping",
       val |-> << [key |-> "B",
                   val |-> ClassInterface("A", MD(<<MethodInterface("f", "h2"), MethodInterface("g", "h1")>>))] >>],
      [kind |-> "mapping",
       val |-> << [key |-> "A",
                   val |-> ClassInterface("A", MD(<<MethodInterface("g", "h1"), MethodInterface("f", "h2")>>))],
                  [key |-> "B",
                   val |-> ClassInterface("B", MD(<<MethodInterface("g", "h1")>>))] >>],
      [kind |-> "sequence", val |-> <<>>] }

\* ----------------------------------------------------------- state
VARIABLES
    built,      \* "unbuilt" | "ready"
    ctorArg,    \* the argument the instance was constructed from
    classes,    \* self.classes
    threads,    \* per thread: the call it is in and the locals of that call
    buffer,     \* the finished buffer of the last serialize
    decoded     \* classes of the instance deserialize returned

vars == <<built, ctorArg, classes, threads, buffer, decoded>>

NoReq == [class_name |-> "", method_name |-> "", sinks |-> "", sources |-> ""]

NoResult == [kind |-> "none", exc |-> "", origin |-> "", cause |-> "", val |-> <<>>]

NoDecoded == [ok |-> FALSE, classes |-> <<>>]

Event(ev, a, b, c) == [ev |-> ev, a |-> a, b |-> b, c |-> c]

IdleThread ==
    [pc |-> "idle", op |-> "", req |-> NoReq, klass |-> NoClass, method |-> NoMethod,
     result |-> NoResult, trace |-> <<>>]

\* the instance is not built yet; arg is what its constructor will be given
InitWith(arg) ==
    /\ built = "unbuilt"
    /\ ctorArg = arg
    /\ classes = <<>>
    /\ threads = [t \in Threads |-> IdleThread]
    /\ buffer = NoBuffer
    /\ decoded = NoDecoded

Init == \E arg \in DispatchArgs : InitWith(arg)

\* ModuleInterface(classes)
Construct ==
    /\ built = "unbuilt"
    /\ built' = "ready"
    /\ classes' = ModuleInterfaceInit(ctorArg)
    /\ UNCHANGED <<ctorArg, threads, buffer, decoded>>

\* as CallLookupClass, a miss remembered in the registry
CallLookupClassCaching(t, req) ==
    /\ built = "ready"
    /\ threads[t].pc = "idle"
    /\ LET r == LookupClass(classes, req.class_name)
           hit == r.kind = "return"
       IN /\ threads' = [threads EXCEPT ![t] =
                 [pc |-> IF hit THEN "get_method" ELSE "done",
                  op |-> "call",
                  req |-> req,
                  klass |-> IF hit THEN r.val ELSE NoClass,
                  method |-> NoMethod,
                  result |-> IF hit THEN NoResult ELSE r,
                  trace |-> <<Event("lookup_class", req.class_name,
                                    IF hit THEN "hit" ELSE "miss", "")>>]]
          /\ classes' = IF hit THEN classes ELSE SetItem(classes, req.class_name, NoClass)
    /\ UNCHANGED <<built, ctorArg, buffer, decoded>>

\* as CallLookupClass, a miss falling back on the first class of the registry
CallLookupClassFallback(t, req) ==
    /\ built = "ready"
    /\ threads[t].pc = "idle"
    /\ LET r == LookupClass(classes, req.class_name)
           hit == r.kind = "return"
           any == hit \/ classes # <<>>
       IN threads' = [threads EXCEPT ![t] =
              [pc |-> IF any THEN "get_method" ELSE "done",
               op |-> "call",
               req |-> req,
               klass |-> IF hit THEN r.val ELSE IF any THEN classes[1].val ELSE NoClass,
               method |-> NoMethod,
               result |-> IF any THEN NoResult ELSE r,
               trace |-> <<Event("lookup_class", req.class_name,
                                 IF hit THEN "hit" ELSE "miss", "")>>]]
    /\ UNCHANGED <<built, ctorArg, classes, buffer, decoded>>

\* __call__(req), first step: klass = self.classes[req.class_name]
CallLookupClass(t, req) ==
    /\ built = "ready"
    /\ threads[t].pc = "idle"
    /\ LET r == LookupClass(classes, req.class_name)
           hit == r.kind = "return"
       IN threads' = [threads EXCEPT ![t] =
              [pc |-> IF hit THEN "get_method" ELSE "done",
               op |-> "call",
               req |-> req,
               klass |-> IF hit THEN r.val ELSE NoClass,
               method |-> NoMethod,
               result |-> IF hit THEN NoResult ELSE r,
               trace |-> <<Event("lookup_class", req.class_name,
                                 IF hit THEN "hit" ELSE "miss", "")>>]]
    /\ UNCHANGED <<built, ctorArg, classes, buffer, decoded>>

\* as CallGetMethod, inside the try block: a missing method reported as a
\* missing class
CallGetMethodInTry(t) ==
    /\ threads[t].pc = "get_method"
    /\ LET th == threads[t]
           r == get_method(th.klass, th.req.method_name)
           hit == r.kind = "return"
       IN threads' = [threads EXCEPT ![t] =
              [th EXCEPT !.pc = IF hit THEN "invoke" ELSE "done",
                         !.method = IF hit THEN r.val ELSE NoMethod,
                         !.result = IF hit THEN NoResult
                                    ELSE Raise("ClassNotFound", "__call__", "KeyError"),
                         !.trace = Append(th.trace,
                                     Event("get_method", th.req.method_name,
                                           IF hit THEN "hit" ELSE "miss", th.klass.name))]]
    /\ UNCHANGED <<built, ctorArg, classes, buffer, decoded>>

\* __call__(req), second step: method = klass.get_method(req.method_name)
CallGetMethod(t) ==
    /\ threads[t].pc = "get_method"
    /\ LET th == threads[t]
           r == get_method(th.klass, th.req.method_name)
           hit == r.kind = "return"
       IN threads' = [threads EXCEPT ![t] =
              [th EXCEPT !.pc = IF hit THEN "invoke" ELSE "done",
                         !.method = IF hit THEN r.val ELSE NoMethod,
                         !.result = IF hit THEN NoResult ELSE r,
                         !.trace = Append(th.trace,
                                     Event("get_method", th.req.method_name,
                                           IF hit THEN "hit" ELSE "miss", th.klass.name))]]
    /\ UNCHANGED <<built, ctorArg, classes, buffer, decoded>>

\* __call__(req), third step: return method(sinks=req.sinks, sources=req.sources)
CallInvoke(t) ==
    /\ threads[t].pc = "invoke"
    /\ LET th == threads[t]
       IN threads' = [threads EXCEPT ![t] =
              [th EXCEPT !.pc = "done",
                         !.result = InvokeMethod(th.method, th.req),
                         !.trace = Append(th.trace,
                                     Event("invoke", th.method.handle,
                                           th.req.sinks, th.req.sources))]]
    /\ UNCHANGED <<built, ctorArg, classes, buffer, decoded>>

\* handle(req)
HandleCall(t, req) ==
    /\ built = "ready"
    /\ threads[t].pc = "idle"
    /\ threads' = [threads EXCEPT ![t] =
           [IdleThread EXCEPT !.pc = "done", !.op = "handle", !.req = req,
                              !.result = handle(classes, req)]]
    /\ UNCHANGED <<built, ctorArg, classes, buffer, decoded>>

\* the caller takes the outcome; the thread is free for its next call
Finish(t) ==
    /\ threads[t].pc = "done"
    /\ threads' = [threads EXCEPT ![t] = IdleThread]
    /\ UNCHANGED <<built, ctorArg, classes, buffer, decoded>>

\* serialize(builder)
Serialize ==
    /\ built = "ready"
    /\ buffer' = serialize(classes)
    /\ UNCHANGED <<built, ctorArg, classes, threads, decoded>>

\* ModuleInterface.deserialize(buffer) on the buffer serialize produced
Deserialize ==
    /\ buffer # NoBuffer
    /\ decoded' = [ok |-> TRUE, classes |-> deserialize(buffer)]
    /\ UNCHANGED <<built, ctorArg, classes, threads, buffer>>

\* dispatch and handle, from several threads, on one instance
Next ==
    \/ Construct
    \/ \E t \in Threads, req \in Requests : CallLookupClass(t, req)
    \/ \E t \in Threads : CallGetMethod(t)
    \/ \E t \in Threads : CallInvoke(t)
    \/ \E t \in Threads, req \in Requests : HandleCall(t, req)
    \/ \E t \in Threads : Finish(t)
    \/ Serialize

Spec == Init /\ [][Next]_vars

\* construction and the codec, over every constructor argument within the bounds
InitCodec ==
    \/ \E k \in 0 .. MaxClasses : \E s \in [1 .. k -> ClassPool] :
          InitWith(SequenceArg(s))
    \/ \E ks \in KeySeqs : \E vs \in [1 .. Len(ks) -> ClassPool] :
          InitWith(MappingArg(DictOver(ks, vs)))

NextCodec ==
    \/ Construct
    \/ Serialize
    \/ Deserialize

SpecCodec == InitCodec /\ [][NextCodec]_vars

\* ------------------------------------------------------ properties
IsCall(t) == threads[t].op = "call"

CallDone(t) == IsCall(t) /\ threads[t].pc = "done"

Invocations(t) == SelectSeq(threads[t].trace, LAMBDA e : e.ev = "invoke")

ClassHit(t) == HasKey(classes, threads[t].req.class_name)

MethodHit(t) ==
    /\ ClassHit(t)
    /\ HasKey(GetItem(classes, threads[t].req.class_name).methods, threads[t].req.method_name)

\* the method the request of t names, when MethodHit(t)
Named(t) ==
    GetItem(GetItem(classes, threads[t].req.class_name).methods, threads[t].req.method_name)

\* __call__(req) run from start to end on the registry cs
Dispatch(cs, req) ==
    LET k == LookupClass(cs, req.class_name)
    IN IF k.kind = "raise" THEN k
       ELSE LET m == get_method(k.val, req.method_name)
            IN IF m.kind = "raise" THEN m ELSE InvokeMethod(m.val, req)

\* C1: a finished dispatch whose class_name is a key of classes and whose
\* method_name names a method of that class has invoked exactly that method's
\* handle, once, with sinks=req.sinks and sources=req.sources, and what the
\* handle returned is what the dispatch returned.
C1_DispatchInvokesNamedMethod ==
    \A t \in Threads :
        (CallDone(t) /\ MethodHit(t)) =>
            LET req == threads[t].req
                h == Named(t).handle
            IN /\ Invocations(t) = <<Event("invoke", h, req.sinks, req.sources)>>
               /\ CallHandle(h, req.sinks, req.sources).kind = "return"
                    => threads[t].result = Return(<<h, req.sinks, req.sources>>)

C1_Witness ==
    \E t \in Threads :
        /\ CallDone(t) /\ MethodHit(t)
        /\ threads[t].result.kind = "return"
        /\ Len(classes) = 2

\* C2: a finished dispatch whose class_name is not a key of classes failed
\* with ClassNotFound, whatever its method_name, and invoked no handle.
C2_ClassMissRaisesClassNotFound ==
    \A t \in Threads :
        (CallDone(t) /\ ~ClassHit(t)) =>
            /\ threads[t].result.kind = "raise"
            /\ threads[t].result.exc = "ClassNotFound"
            /\ Invocations(t) = <<>>

C2_Witness ==
    \E t \in Threads : CallDone(t) /\ ~ClassHit(t) /\ classes # <<>>

\* C3: a finished dispatch whose class_name is a key of classes and whose
\* method_name is not a method of that class failed with MethodNotFound, not
\* ClassNotFound, and invoked no handle.
C3_MethodMissRaisesMethodNotFound ==
    \A t \in Threads :
        (CallDone(t) /\ ClassHit(t) /\ ~MethodHit(t)) =>
            /\ threads[t].result.kind = "raise"
            /\ threads[t].result.exc = "MethodNotFound"
            /\ Invocations(t) = <<>>

C3_Witness ==
    \E t \in Threads : CallDone(t) /\ ClassHit(t) /\ ~MethodHit(t)

HasDuplicateNames(xs) == \E i, j \in 1 .. Len(xs) : i # j /\ xs[i].name = xs[j].name

\* C4: constructing a ModuleInterface from a plain sequence in which two
\* ClassInterface values share a name fails (DuplicateClassError): no registry
\* is produced from such a sequence.
C4_DuplicateNamesRejected ==
    (ctorArg.kind = "sequence" /\ HasDuplicateNames(ctorArg.val)) => built # "ready"

KeysEqualNames(cs) == \A i \in 1 .. Len(cs) : cs[i].key = cs[i].val.name

KeySeq(d) == [i \in 1 .. Len(d) |-> d[i].key]

\* the keys of a registry and, per class, the keys of its methods, in order
Shape(cs) == [i \in 1 .. Len(cs) |-> <<cs[i].key, KeySeq(cs[i].val.methods)>>]

\* C5: for a ModuleInterface whose keys are the names of its classes (so class
\* names are unique; method names are unique within each class),
\* deserialize(serialize(x)) has the same class keys and the same nested method
\* names as x, in the same insertion order.
C5_RoundTrip ==
    (decoded.ok /\ KeysEqualNames(classes)) => Shape(decoded.classes) = Shape(classes)

C5_Witness ==
    /\ decoded.ok /\ KeysEqualNames(classes)
    /\ Len(classes) = 2
    /\ Len(classes[1].val.methods) = 2
    /\ classes[1].key = "B"

\* C6: in every ModuleInterface that construction produces, from a plain
\* sequence or from a mapping, every key of classes equals the name of the
\* ClassInterface it maps to.
C6_KeysAreNames == built = "ready" => KeysEqualNames(classes)

\* C7: when a dispatch has resolved class and method and the handle it invoked
\* failed, the outcome of the dispatch is that very failure: not caught, not
\* wrapped, not turned into ClassNotFound or MethodNotFound, also when the
\* failure is a KeyError.
C7_CalleeFailurePropagates ==
    \A t \in Threads :
        (CallDone(t) /\ Invocations(t) # <<>>) =>
            LET req == threads[t].req
                own == CallHandle(threads[t].method.handle, req.sinks, req.sources)
            IN own.kind = "raise" =>
                 /\ threads[t].result = own
                 /\ threads[t].result.origin = threads[t].method.handle
                 /\ threads[t].result.exc \notin {"ClassNotFound", "MethodNotFound"}

C7_Witness ==
    \E t \in Threads :
        /\ CallDone(t) /\ Invocations(t) # <<>>
        /\ threads[t].result.kind = "raise"
        /\ threads[t].result.exc = "KeyError"

\* the outcome of every finished call is the one the registry, as construction
\* left it, and the request determine
OutcomesFromConstruction ==
    \A t \in Threads :
        threads[t].pc = "done" =>
            threads[t].result =
                IF IsCall(t) THEN Dispatch(ModuleInterfaceInit(ctorArg), threads[t].req)
                ELSE handle(ModuleInterfaceInit(ctorArg), threads[t].req)

\* C8: once the ModuleInterface is built, no step of a dispatch (succeeding or
\* failing), of handle or of serialize changes classes or the methods of a class,
\* and under any interleaving of the threads' calls the outcome of each call is
\* a function of the registry as constructed and of the request.
C8_RegistryReadOnly ==
    /\ [][built = "ready" => classes' = classes]_vars
    /\ [](built = "ready" => classes = ModuleInterfaceInit(ctorArg))
    /\ []OutcomesFromConstruction

C8_Witness ==
    \E t1, t2 \in Threads :
        /\ t1 # t2
        /\ IsCall(t1) /\ threads[t1].pc = "invoke"
        /\ CallDone(t2) /\ threads[t2].result.kind = "raise"
        /\ buffer # NoBuffer

\* C9: the steps of a dispatch come in the order class lookup, method lookup,
\* invocation, each at most once and on the names of the request: the method
\* lookup only after a class hit and on that class, the invocation only after
\* a method hit, and a miss is the last step of the call.
C9_DispatchStepOrder ==
    \A t \in Threads :
        IsCall(t) =>
            LET th == threads[t]
                tr == th.trace
                n == Len(tr)
            IN /\ n \in 1 .. 3
               /\ tr[1].ev = "lookup_class" /\ tr[1].a = th.req.class_name
               /\ n >= 2 => /\ tr[1].b = "hit"
                            /\ tr[2].ev = "get_method"
                            /\ tr[2].a = th.req.method_name
                            /\ tr[2].c = GetItem(classes, th.req.class_name).name
               /\ n = 3 => tr[2].b = "hit" /\ tr[3].ev = "invoke"
               /\ \A i \in 1 .. n : tr[i].b = "miss" => (i = n /\ th.pc = "done")
               /\ th.pc = "get_method" <=> (n = 1 /\ tr[1].b = "hit")
               /\ th.pc = "invoke" <=> (n = 2 /\ tr[2].b = "hit")

C9_Witness ==
    \E t1, t2 \in Threads :
        /\ CallDone(t1) /\ Len(threads[t1].trace) = 3
        /\ CallDone(t2) /\ Len(threads[t2].trace) = 1

\* C10: handle(req) invokes no handle; when class and method both exist it
\* returns the method a dispatch of the same request resolves and invokes; when
\* class_name is absent it fails with a plain KeyError where dispatch fails with
\* ClassNotFound.
C10_HandleAgreesWithDispatch ==
    \A t \in Threads :
        (threads[t].op = "handle" /\ threads[t].pc = "done") =>
            /\ Invocations(t) = <<>>
            /\ MethodHit(t) =>
                 /\ threads[t].result = Return(Named(t))
                 /\ \A u \in Threads :
                      (IsCall(u) /\ threads[u].req = threads[t].req
                         /\ (threads[u].pc = "invoke" \/ Invocations(u) # <<>>))
                        => threads[u].method = threads[t].result.val
            /\ ~ClassHit(t) =>
                 /\ threads[t].result.kind = "raise"
                 /\ threads[t].result.exc = "KeyError"
                 /\ Dispatch(classes, threads[t].req).exc = "ClassNotFound"

C10_Witness ==
    \E t, u \in Threads :
        /\ threads[t].op = "handle" /\ threads[t].pc = "done" /\ MethodHit(t)
        /\ IsCall(u) /\ threads[u].req = threads[t].req /\ threads[u].pc = "invoke"

====
